---- MODULE Spec2Model ----
(***************************************************************************)
(* simplessh: the connect variants, the Session operations (Exec,          *)
(* ExecWithOutputStreams, Download, Upload, ReadAll, Close, SFTPClient)     *)
(* and endpoint normalisation (addPortToHost) of src/simplessh.go.          *)
(*                                                                         *)
(* Strings whose content matters (hosts, byte buffers) are sequences; the  *)
(* collaborators (os/user, net, ssh, sftp, os, io) are modelled by their   *)
(* outcome, chosen nondeterministically per call.                          *)
(***************************************************************************)
EXTENDS Integers, Sequences, FiniteSets, TLC

\* ---------------------------------------------------------------- bounds
\* longest host string handed to addPortToHost
MaxHostLen == 4
\* most output events (one byte on one stream) a remote command produces
MaxOut == 2
\* longest file content (bytes)
MaxFile == 2

\* const DefaultTimeout = 30 * time.Second (in seconds)
DefaultTimeout == 30

\* Go's nil (error, *Client)
Nil == "nil"

\* ------------------------------------------------------- strings of a host
\* the strings over the characters S of a length in lo..hi
Strings(S, lo, hi) == UNION {[1..n -> S] : n \in lo..hi}

\* bytealg.IndexByteString, 0-based, -1 when absent
IndexByte(s, c) ==
    IF \E i \in 1..Len(s) : s[i] = c
    THEN (CHOOSE i \in 1..Len(s) : s[i] = c /\ \A j \in 1..(i-1) : s[j] # c) - 1
    ELSE -1

\* the last index of c in s, 0-based, -1 when absent
LastIndexByte(s, c) ==
    IF \E i \in 1..Len(s) : s[i] = c
    THEN (CHOOSE i \in 1..Len(s) : s[i] = c /\ \A j \in (i+1)..Len(s) : s[j] # c) - 1
    ELSE -1

\* Go's s[a:b] with 0-based bounds
Slice(s, a, b) == SubSeq(s, a + 1, b)

AddrErr(why) == [host |-> <<>>, port |-> <<>>, err |-> why]

\* net.SplitHostPort for a hostport whose first byte is '['
SplitBracketed(hostport, i) ==
    LET end == IndexByte(hostport, "]") IN
    IF end < 0 THEN AddrErr("missing ']' in address")
    ELSE IF end + 1 = Len(hostport) THEN AddrErr("missing port in address")
    ELSE IF end + 1 # i THEN
        IF hostport[end + 2] = ":" THEN AddrErr("too many colons in address")
        ELSE AddrErr("missing port in address")
    ELSE IF IndexByte(Slice(hostport, 1, Len(hostport)), "[") >= 0
        THEN AddrErr("unexpected '[' in address")
    ELSE IF IndexByte(Slice(hostport, end + 1, Len(hostport)), "]") >= 0
        THEN AddrErr("unexpected ']' in address")
    ELSE [host |-> Slice(hostport, 1, end),
          port |-> Slice(hostport, i + 1, Len(hostport)), err |-> Nil]

\* net.SplitHostPort for a hostport that does not start with '['
SplitPlain(hostport, i) ==
    LET host == Slice(hostport, 0, i) IN
    IF IndexByte(host, ":") >= 0 THEN AddrErr("too many colons in address")
    ELSE IF IndexByte(hostport, "[") >= 0 THEN AddrErr("unexpected '[' in address")
    ELSE IF IndexByte(hostport, "]") >= 0 THEN AddrErr("unexpected ']' in address")
    ELSE [host |-> host, port |-> Slice(hostport, i + 1, Len(hostport)), err |-> Nil]

\* net.SplitHostPort: the port starts after the last colon
SplitHostPort(hostport) ==
    LET i == LastIndexByte(hostport, ":") IN
    IF i < 0 THEN AddrErr("missing port in address")
    ELSE IF hostport[1] = "[" THEN SplitBracketed(hostport, i)
    ELSE SplitPlain(hostport, i)

\* net.JoinHostPort: a host with a colon is taken for an IPv6 literal
JoinHostPort(host, port) ==
    IF IndexByte(host, ":") >= 0
    THEN <<"[">> \o host \o <<"]", ":">> \o port
    ELSE host \o <<":">> \o port

\* the host strings a caller passes: a name, a bare IPv6 literal, a bracketed
\* IPv6 literal, and a name or bracketed literal followed by a colon and a
\* port (which may be empty)
HostNames == Strings({"h"}, 1, MaxHostLen)
IPv6Literals ==
    {s \in Strings({"h", ":"}, 2, MaxHostLen) : IndexByte(s, ":") # LastIndexByte(s, ":")}
Bracketed == {<<"[">> \o s \o <<"]">> : s \in IPv6Literals}
Ports == Strings({"2"}, 0, 2)
Hosts ==
    HostNames \cup IPv6Literals \cup Bracketed
    \cup {x \o <<":">> \o p : x \in HostNames \cup Bracketed, p \in Ports}

Port22 == <<"2", "2">>

addPortToHost(host) ==
    IF SplitHostPort(host).err # Nil
    THEN JoinHostPort(host, Port22)
    ELSE host

\* ------------------------------------------------------------------ state
VARIABLES
    osUser,     \* what user.Current() yields in this process: a name, or Nil when it fails
    authSock,   \* the SSH_AUTH_SOCK environment variable ("" when empty or unset)
    call,       \* the last connect call: what it returned, what it did, its sockets
    session,    \* the *Client the caller holds: "none", "open", "closed"
    ret,        \* the last Session operation: what it returned, what it did,
                \* and the sub-channels and file handles it opened
    localFile,  \* the local path's file
    remoteFile, \* the remote path's file
    proc,       \* the process: "running", or "aborted" after a panic
    endpoint    \* a host string under normalisation (SpecNorm)

vars == <<osUser, authSock, call, session, ret, localFile, remoteFile,
          proc, endpoint>>

\* ---------------------------------------------------------------- connect
\* the collaborator step a connect call may find failing (Nil: none fails)
ConnectFaults == {Nil, "ioutil.ReadFile", "net.Dial", "net.DialTimeout", "ssh.NewClientConn"}

Usernames == {"", "tester"}
Passwords == {"x"}
PrivKeys == {"pem", "garbage", ""}
KeyPaths == {"", "key.pem"}
Timeouts == {5}
ConnectHosts == {<<"h">>, <<"h", ":", "h">>}

\* a connect call that has done nothing yet: the variant called and the
\* username it was given, then what it has built, done and will return
NewCall(variant, username) ==
    [variant |-> variant, username |-> username, privKey |-> "",
     client |-> Nil, err |-> Nil, trace |-> <<>>,
     user |-> "", auth |-> <<>>, addr |-> <<>>, timeout |-> 0,
     agent |-> "none", conn |-> "none"]

\* the call has made this collaborator call
Step(r, s) == [r EXCEPT !.trace = Append(@, s)]

\* return nil, err
Fail(r, e) == [r EXCEPT !.client = Nil, !.err = e]

\* ssh.NewClientConn and the wrap into a Client; the ssh package closes the
\* connection it was given when the handshake fails
Handshake(r, f) ==
    LET r1 == Step(r, "ssh.NewClientConn") IN
    IF f = "ssh.NewClientConn"
    THEN Fail([r1 EXCEPT !.conn = "closed"], "ssh.NewClientConn")
    ELSE [r1 EXCEPT !.client = "client"]

\* a variant of DialAndHandshake that dials a second time when the first dial fails
DialWithRetry(r, f) ==
    LET r1 == Step(r, "net.DialTimeout") IN
    IF f = "net.DialTimeout"
    THEN Handshake([Step(r1, "net.DialTimeout") EXCEPT !.conn = "open"], f)
    ELSE Handshake([r1 EXCEPT !.conn = "open"], f)

\* net.DialTimeout and what follows it
DialAndHandshake(r, f) ==
    LET r1 == Step(r, "net.DialTimeout") IN
    IF f = "net.DialTimeout"
    THEN Fail(r1, "net.DialTimeout")
    ELSE Handshake([r1 EXCEPT !.conn = "open"], f)

\* a variant of connect that goes on with the empty username when the
\* current-user lookup fails
connectIgnoringLookupError(r, username, host, authMethod, timeout, f) ==
    LET r1 == IF username = "" THEN Step(r, "user.Current") ELSE r IN
    DialAndHandshake(
        [r1 EXCEPT !.user = IF username = "" /\ osUser # Nil THEN osUser ELSE username,
                   !.auth = <<authMethod>>,
                   !.addr = addPortToHost(host),
                   !.timeout = timeout], f)

connect(r, username, host, authMethod, timeout, f) ==
    LET r1 == IF username = "" THEN Step(r, "user.Current") ELSE r IN
    IF username = "" /\ osUser = Nil
    THEN Fail(r1, "couldn't get current user")
    ELSE DialAndHandshake(
            [r1 EXCEPT !.user = IF username = "" THEN osUser ELSE username,
                       !.auth = <<authMethod>>,
                       !.addr = addPortToHost(host),
                       !.timeout = timeout], f)

ConnectWithPasswordTimeout(r, host, username, pass, timeout, f) ==
    connect(r, username, host, "ssh.Password", timeout, f)

ConnectWithPassword(r, host, username, pass, f) ==
    ConnectWithPasswordTimeout(r, host, username, pass, DefaultTimeout, f)

\* ssh.ParsePrivateKey: only well-formed key material parses
ParsePrivateKey(privKey) == IF privKey = "pem" THEN Nil ELSE "ssh: no key found"

\* a variant of ConnectWithKeyTimeout that drops the parse error
ConnectWithKeyTimeoutIgnoringParseError(r, host, username, privKey, timeout, f) ==
    connect(Step([r EXCEPT !.privKey = privKey], "ssh.ParsePrivateKey"),
            username, host, "ssh.PublicKeys", timeout, f)

ConnectWithKeyTimeout(r, host, username, privKey, timeout, f) ==
    LET r1 == Step([r EXCEPT !.privKey = privKey], "ssh.ParsePrivateKey") IN
    IF ParsePrivateKey(privKey) # Nil
    THEN Fail(r1, ParsePrivateKey(privKey))
    ELSE connect(r1, username, host, "ssh.PublicKeys", timeout, f)

ConnectWithKey(r, host, username, privKey, f) ==
    ConnectWithKeyTimeout(r, host, username, privKey, DefaultTimeout, f)

\* the path ConnectWithKeyFileTimeout reads: an empty path becomes
\* <home>/.ssh/id_rsa when the current user is known, and stays empty otherwise
KeyFilePath(privKeyPath) ==
    IF privKeyPath = "" /\ osUser # Nil THEN "home/.ssh/id_rsa" ELSE privKeyPath

\* content is what the file holds when it can be read
ConnectWithKeyFileTimeout(r, host, username, privKeyPath, content, timeout, f) ==
    LET r1 == IF privKeyPath = "" THEN Step(r, "user.Current(home)") ELSE r
        r2 == Step(r1, "ioutil.ReadFile")
    IN IF KeyFilePath(privKeyPath) = "" \/ f = "ioutil.ReadFile"
       THEN Fail(r2, "ioutil.ReadFile")
       ELSE ConnectWithKeyTimeout(r2, host, username, content, timeout, f)

ConnectWithKeyFile(r, host, username, privKeyPath, content, f) ==
    ConnectWithKeyFileTimeout(r, host, username, privKeyPath, content, DefaultTimeout, f)

\* net.Dial("unix", address): an empty address is refused at once (missing
\* address); any other address is reachable or not
DialUnixFails(address, f) == address = "" \/ f = "net.Dial"

\* a variant of ConnectWithSshAgentTimeout that drops the agent dial's error
ConnectWithSshAgentTimeoutIgnoringDialError(r, host, username, timeout, f) ==
    LET r1 == Step(r, "net.Dial(unix)") IN
    connect([r1 EXCEPT !.agent = IF DialUnixFails(authSock, f) THEN "none" ELSE "open"],
            username, host, "ssh.PublicKeysCallback", timeout, f)

ConnectWithSshAgentTimeout(r, host, username, timeout, f) ==
    LET r1 == Step(r, "net.Dial(unix)") IN
    IF DialUnixFails(authSock, f)
    THEN Fail(r1, "net.Dial")
    ELSE connect([r1 EXCEPT !.agent = "open"], username, host,
                 "ssh.PublicKeysCallback", timeout, f)

ConnectWithSshAgent(r, host, username, f) ==
    ConnectWithSshAgentTimeout(r, host, username, DefaultTimeout, f)

\* ------------------------------------------------------ Session operations
Bytes == {"a", "b"}
Streams == {"stdout", "stderr"}

\* a Go []byte: nil, or a (possibly empty) sequence of bytes
NilBytes == [nil |-> TRUE, b |-> <<>>]
Slice0(b) == [nil |-> FALSE, b |-> b]

\* bytes.Buffer: the zero value holds a nil slice
NewBuffer == NilBytes
\* Buffer.Write: appending nothing leaves a nil slice nil
BufWrite(buf, p) == IF p = <<>> THEN buf ELSE [nil |-> FALSE, b |-> buf.b \o p]
\* Buffer.ReadFrom grows the buffer before its first read
BufGrow(buf) == [nil |-> FALSE, b |-> buf.b]
\* Buffer.Bytes: the unread portion, nil for a buffer never grown
BufBytes(buf) == buf

\* what a remote command writes: events, each one byte on one stream
Events == [stream : Streams, byte : Bytes]
Outputs == UNION {[1..n -> Events] : n \in 0..MaxOut}

RECURSIVE BytesOf(_, _)
\* the bytes of the events on the streams S, in arrival order
BytesOf(events, S) ==
    IF events = <<>> THEN <<>>
    ELSE (IF Head(events).stream \in S THEN <<Head(events).byte>> ELSE <<>>)
         \o BytesOf(Tail(events), S)

\* the steps a Session operation may find failing (Nil: none fails)
ExecFaults == {Nil, "NewSession", "Start", "Wait"}

\* a Session operation that has done nothing yet
NewRet(op) ==
    [op |-> op, out |-> NilBytes, errOut |-> NilBytes, err |-> Nil,
     trace |-> <<>>, fault |-> Nil, events |-> <<>>,
     localBefore |-> localFile, remoteBefore |-> remoteFile,
     session |-> "none", sftp |-> "none", local |-> "none", remote |-> "none",
     localFile |-> localFile, remoteFile |-> remoteFile, panic |-> FALSE]

\* session.Run(cmd) with session.Stdout = stdout, session.Stderr = stderr:
\* a refused exec request fails before anything is copied; once started, the
\* copiers grow the buffers and append what arrives; a failing Wait (non-zero
\* exit, lost channel) comes after the output that made it through
Run(stdout, stderr, events, f) ==
    IF f = "Start"
    THEN [stdout |-> stdout, stderr |-> stderr, err |-> "Start"]
    ELSE [stdout |-> BufWrite(BufGrow(stdout), BytesOf(events, {"stdout"})),
          stderr |-> BufWrite(BufGrow(stderr), BytesOf(events, {"stderr"})),
          err |-> IF f = "Wait" THEN "Wait" ELSE Nil]

\* session.CombinedOutput(cmd): one buffer behind both streams
CombinedOutput(events, f) ==
    IF f = "Start"
    THEN [out |-> BufBytes(NewBuffer), err |-> "Start"]
    ELSE [out |-> BufBytes(BufWrite(NewBuffer, BytesOf(events, Streams))),
          err |-> IF f = "Wait" THEN "Wait" ELSE Nil]

Exec(r, cmd, events, f) ==
    LET r1 == Step(r, "NewSession") IN
    IF f = "NewSession"
    THEN [r1 EXCEPT !.err = "NewSession"]
    ELSE LET c == CombinedOutput(events, f) IN
         [Step(r1, "CombinedOutput") EXCEPT
             !.out = c.out, !.err = c.err, !.session = "closed"]

\* a variant of ExecWithOutputStreams that returns no output when the run fails
ExecWithOutputStreamsDiscardingOnError(r, cmd, events, f) ==
    LET r1 == Step(r, "NewSession") IN
    IF f = "NewSession"
    THEN [r1 EXCEPT !.err = "NewSession"]
    ELSE LET run == Run(NewBuffer, NewBuffer, events, f) IN
         IF run.err # Nil
         THEN [Step(r1, "Run") EXCEPT !.err = run.err, !.session = "closed"]
         ELSE [Step(r1, "Run") EXCEPT
                 !.out = BufBytes(run.stdout), !.errOut = BufBytes(run.stderr),
                 !.session = "closed"]

ExecWithOutputStreams(r, cmd, events, f) ==
    LET r1 == Step(r, "NewSession") IN
    IF f = "NewSession"
    THEN [r1 EXCEPT !.err = "NewSession"]
    ELSE LET run == Run(NewBuffer, NewBuffer, events, f) IN
         [Step(r1, "Run") EXCEPT
             !.out = BufBytes(run.stdout), !.errOut = BufBytes(run.stderr),
             !.err = run.err, !.session = "closed"]

\* a file of a file system: absent, or its content
Absent == [exists |-> FALSE, data |-> <<>>]
File(data) == [exists |-> TRUE, data |-> data]

\* the file-transfer steps an operation may find failing (Nil: none fails)
TransferFaults == {Nil, "sftp.NewClient", "Open", "Create", "io.Copy"}
ReadAllFaults == {Nil, "sftp.NewClient", "Open", "ioutil.ReadAll"}

\* the function returns: its deferred Close calls run
Return(r, deferred) ==
    [r EXCEPT !.session = IF "session" \in deferred THEN "closed" ELSE @,
              !.sftp = IF "sftp" \in deferred THEN "closed" ELSE @,
              !.local = IF "local" \in deferred THEN "closed" ELSE @,
              !.remote = IF "remote" \in deferred THEN "closed" ELSE @]

\* a variant of Download that creates the local file before it opens the remote one
DownloadCreatingFirst(r, remote, local, n, f) ==
    LET r1 == Step(r, "sftp.NewClient") IN
    IF f = "sftp.NewClient" THEN [r1 EXCEPT !.err = f]
    ELSE
    LET r2 == Step([r1 EXCEPT !.sftp = "closed"], "Create") IN
    IF f = "Create" THEN [r2 EXCEPT !.err = f]
    ELSE
    LET r3 == Step([r2 EXCEPT !.local = "closed", !.localFile = File(<<>>)], "Open") IN
    IF f = "Open" THEN [r3 EXCEPT !.err = f]
    ELSE
    [Step(r3, "io.Copy") EXCEPT
        !.remote = "closed",
        !.localFile = File(Slice(r.remoteFile.data, 0, n)),
        !.err = IF f = "io.Copy" THEN f ELSE Nil]

\* n: the bytes io.Copy moves before it ends (all of them when it succeeds)
Download(r, remote, local, n, f) ==
    LET r1 == Step(r, "sftp.NewClient") IN
    IF f = "sftp.NewClient" THEN Return([r1 EXCEPT !.err = f], {})
    ELSE
    LET r2 == Step([r1 EXCEPT !.sftp = "open"], "Open") IN
    IF f = "Open" THEN Return([r2 EXCEPT !.err = f], {"sftp"})
    ELSE
    LET r3 == Step([r2 EXCEPT !.remote = "open"], "Create") IN
    IF f = "Create" THEN Return([r3 EXCEPT !.err = f], {"sftp", "remote"})
    ELSE
    LET r4 == Step([r3 EXCEPT !.local = "open", !.localFile = File(<<>>)], "io.Copy") IN
    Return([r4 EXCEPT !.localFile = File(Slice(r.remoteFile.data, 0, n)),
                      !.err = IF f = "io.Copy" THEN f ELSE Nil],
           {"sftp", "remote", "local"})

Upload(r, local, remote, n, f) ==
    LET r1 == Step(r, "sftp.NewClient") IN
    IF f = "sftp.NewClient" THEN Return([r1 EXCEPT !.err = f], {})
    ELSE
    LET r2 == Step([r1 EXCEPT !.sftp = "open"], "Open") IN
    IF f = "Open" THEN Return([r2 EXCEPT !.err = f], {"sftp"})
    ELSE
    LET r3 == Step([r2 EXCEPT !.local = "open"], "Create") IN
    IF f = "Create" THEN Return([r3 EXCEPT !.err = f], {"sftp", "local"})
    ELSE
    LET r4 == Step([r3 EXCEPT !.remote = "open", !.remoteFile = File(<<>>)], "io.Copy") IN
    Return([r4 EXCEPT !.remoteFile = File(Slice(r.localFile.data, 0, n)),
                      !.err = IF f = "io.Copy" THEN f ELSE Nil],
           {"sftp", "local"})

\* Client.SFTPClient: the caller owns the sub-client it gets
SFTPClient(r, f) ==
    LET r1 == Step(r, "sftp.NewClient") IN
    IF f = "sftp.NewClient" THEN [r1 EXCEPT !.err = f]
    ELSE [r1 EXCEPT !.sftp = "open"]

\* a variant of ReadAll that returns the sub-client's construction error
ReadAllReturningError(r, filepath, n, f) ==
    LET r1 == SFTPClient(r, f) IN
    IF r1.err # Nil THEN r1
    ELSE
    LET r2 == Step(r1, "Open") IN
    IF f = "Open" THEN [r2 EXCEPT !.err = f, !.sftp = "closed"]
    ELSE
    [Step(r2, "ioutil.ReadAll") EXCEPT
        !.out = Slice0(Slice(r.remoteFile.data, 0, n)),
        !.err = IF f = "ioutil.ReadAll" THEN f ELSE Nil,
        !.sftp = "closed", !.remote = "closed"]

\* n: the bytes ioutil.ReadAll reads before it ends (all of them when it succeeds)
ReadAll(r, filepath, n, f) ==
    LET r1 == SFTPClient(r, f) IN
    IF r1.err # Nil THEN [r1 EXCEPT !.panic = TRUE]
    ELSE
    LET r2 == Step(r1, "Open") IN
    IF f = "Open" THEN Return([r2 EXCEPT !.err = f], {"sftp"})
    ELSE
    LET r3 == Step([r2 EXCEPT !.remote = "open"], "ioutil.ReadAll") IN
    Return([r3 EXCEPT !.out = Slice0(Slice(r.remoteFile.data, 0, n)),
                      !.err = IF f = "ioutil.ReadAll" THEN f ELSE Nil],
           {"sftp", "remote"})

\* Client.Close: the ssh client closes its transport connection
Close(c) == [c EXCEPT !.conn = "closed"]
\* Client.Close returns what SSHClient.Close returns
CloseReturn(r, f) == [Step(r, "SSHClient.Close") EXCEPT !.err = f]

\* ---------------------------------------------------------------- actions
\* the content the files start with
FullFile == [i \in 1..MaxFile |-> IF i % 2 = 1 THEN "a" ELSE "b"]

RawEndpoint(host) == [host |-> host, once |-> <<>>, twice |-> <<>>, state |-> "raw"]

\* no Session yet: the process is about to call a connect variant
InitConnect ==
    /\ osUser \in {Nil, "root"}
    /\ authSock \in {"", "/tmp/agent.sock"}
    /\ localFile = Absent
    /\ remoteFile = Absent
    /\ call = NewCall("none", "")
    /\ session = "none"
    /\ ret = NewRet("none")
    /\ proc = "running"
    /\ endpoint = RawEndpoint(<<>>)

\* a connect call returns r to a caller that holds no open Session
Connected(r) ==
    /\ call' = r
    /\ session' = IF r.client = Nil THEN "none" ELSE "open"
    /\ UNCHANGED <<osUser, authSock, ret, localFile, remoteFile, proc, endpoint>>

CanConnect == proc = "running" /\ session # "open"

CallConnectWithPassword ==
    /\ CanConnect
    /\ \E host \in ConnectHosts, username \in Usernames, pass \in Passwords,
          f \in ConnectFaults :
        Connected(ConnectWithPassword(NewCall("ConnectWithPassword", username),
                                      host, username, pass, f))

CallConnectWithPasswordTimeout ==
    /\ CanConnect
    /\ \E host \in ConnectHosts, username \in Usernames, pass \in Passwords,
          timeout \in Timeouts, f \in ConnectFaults :
        Connected(ConnectWithPasswordTimeout(NewCall("ConnectWithPasswordTimeout", username),
                                             host, username, pass, timeout, f))

CallConnectWithKey ==
    /\ CanConnect
    /\ \E host \in ConnectHosts, username \in Usernames, privKey \in PrivKeys,
          f \in ConnectFaults :
        Connected(ConnectWithKey(NewCall("ConnectWithKey", username), host, username, privKey, f))

CallConnectWithKeyTimeout ==
    /\ CanConnect
    /\ \E host \in ConnectHosts, username \in Usernames, privKey \in PrivKeys,
          timeout \in Timeouts, f \in ConnectFaults :
        Connected(ConnectWithKeyTimeout(NewCall("ConnectWithKeyTimeout", username),
                                        host, username, privKey, timeout, f))

CallConnectWithKeyFile ==
    /\ CanConnect
    /\ \E host \in ConnectHosts, username \in Usernames, path \in KeyPaths,
          content \in PrivKeys, f \in ConnectFaults :
        Connected(ConnectWithKeyFile(NewCall("ConnectWithKeyFile", username),
                                     host, username, path, content, f))

CallConnectWithKeyFileTimeout ==
    /\ CanConnect
    /\ \E host \in ConnectHosts, username \in Usernames, path \in KeyPaths,
          content \in PrivKeys, timeout \in Timeouts, f \in ConnectFaults :
        Connected(ConnectWithKeyFileTimeout(NewCall("ConnectWithKeyFileTimeout", username),
                                            host, username, path, content, timeout, f))

CallConnectWithSshAgent ==
    /\ CanConnect
    /\ \E host \in ConnectHosts, username \in Usernames, f \in ConnectFaults :
        Connected(ConnectWithSshAgent(NewCall("ConnectWithSshAgent", username), host, username, f))

CallConnectWithSshAgentTimeout ==
    /\ CanConnect
    /\ \E host \in ConnectHosts, username \in Usernames, timeout \in Timeouts,
          f \in ConnectFaults :
        Connected(ConnectWithSshAgentTimeout(NewCall("ConnectWithSshAgentTimeout", username),
                                             host, username, timeout, f))

\* a Session operation returns r (or panics)
Returned(r) ==
    /\ ret' = r
    /\ localFile' = r.localFile
    /\ remoteFile' = r.remoteFile
    /\ proc' = IF r.panic THEN "aborted" ELSE proc
    /\ UNCHANGED <<osUser, authSock, call, session, endpoint>>

CanOperate == proc = "running" /\ session = "open"

\* the operation is called with what its collaborators will do
Called(op, events, f) == [NewRet(op) EXCEPT !.fault = f, !.events = events]

CallExec ==
    /\ CanOperate
    /\ \E f \in ExecFaults, events \in Outputs :
        /\ f \in {"NewSession", "Start"} => events = <<>>
        /\ Returned(Exec(Called("Exec", events, f), "cmd", events, f))

CallExecWithOutputStreams ==
    /\ CanOperate
    /\ \E f \in ExecFaults, events \in Outputs :
        /\ f \in {"NewSession", "Start"} => events = <<>>
        /\ Returned(ExecWithOutputStreams(Called("ExecWithOutputStreams", events, f),
                                          "cmd", events, f))

CallDownload ==
    /\ CanOperate
    /\ \E f \in TransferFaults, n \in 0..Len(remoteFile.data) :
        /\ ~remoteFile.exists => f \in {"sftp.NewClient", "Open"}
        /\ f # "io.Copy" => n = Len(remoteFile.data)
        /\ Returned(Download(Called("Download", <<>>, f), "remote", "local", n, f))

CallUpload ==
    /\ CanOperate
    /\ \E f \in TransferFaults, n \in 0..Len(localFile.data) :
        /\ ~localFile.exists => f \in {"sftp.NewClient", "Open"}
        /\ f # "io.Copy" => n = Len(localFile.data)
        /\ Returned(Upload(Called("Upload", <<>>, f), "local", "remote", n, f))

CallReadAll ==
    /\ CanOperate
    /\ \E f \in ReadAllFaults, n \in 0..Len(remoteFile.data) :
        /\ ~remoteFile.exists => f \in {"sftp.NewClient", "Open"}
        /\ f # "ioutil.ReadAll" => n = Len(remoteFile.data)
        /\ Returned(ReadAll(Called("ReadAll", <<>>, f), "remote", n, f))

CallSFTPClient ==
    /\ CanOperate
    /\ \E f \in {Nil, "sftp.NewClient"} :
        Returned(SFTPClient(Called("SFTPClient", <<>>, f), f))

CallClose ==
    /\ CanOperate
    /\ \E f \in {Nil, "SSHClient.Close"} :
        /\ call' = Close(call)
        /\ ret' = CloseReturn(Called("Close", <<>>, f), f)
    /\ session' = "closed"
    /\ UNCHANGED <<osUser, authSock, localFile, remoteFile, proc, endpoint>>

\* connecting, and closing what was connected
NextConnect ==
    \/ CallConnectWithPassword
    \/ CallConnectWithPasswordTimeout
    \/ CallConnectWithKey
    \/ CallConnectWithKeyTimeout
    \/ CallConnectWithKeyFile
    \/ CallConnectWithKeyFileTimeout
    \/ CallConnectWithSshAgent
    \/ CallConnectWithSshAgentTimeout
    \/ CallClose

SpecConnect == InitConnect /\ [][NextConnect]_vars

\* a Session a connect call has just returned
InitSession ==
    /\ osUser = "root"
    /\ authSock = ""
    /\ localFile \in {Absent, File(<<"b">>)}
    /\ remoteFile \in {Absent, File(FullFile)}
    /\ call = ConnectWithPassword(NewCall("ConnectWithPassword", "tester"),
                                  <<"h">>, "tester", "x", Nil)
    /\ session = "open"
    /\ ret = NewRet("none")
    /\ proc = "running"
    /\ endpoint = RawEndpoint(<<>>)

\* the operations of a Session
NextSession ==
    \/ CallExec
    \/ CallExecWithOutputStreams
    \/ CallDownload
    \/ CallUpload
    \/ CallReadAll
    \/ CallSFTPClient
    \/ CallClose

SpecSession == InitSession /\ [][NextSession]_vars

\* ------------------------------------------- endpoint normalisation alone
InitNorm ==
    /\ osUser = "root"
    /\ authSock = ""
    /\ localFile = Absent
    /\ remoteFile = Absent
    /\ call = NewCall("none", "")
    /\ session = "none"
    /\ ret = NewRet("none")
    /\ proc = "running"
    /\ \E host \in Hosts : endpoint = RawEndpoint(host)

\* connect normalises the host it was given
Normalize ==
    /\ endpoint.state = "raw"
    /\ endpoint' = [endpoint EXCEPT !.once = addPortToHost(endpoint.host),
                                    !.state = "once"]
    /\ UNCHANGED <<osUser, authSock, call, session, ret, localFile, remoteFile, proc>>

\* the normalised endpoint is handed to a connect call again
Renormalize ==
    /\ endpoint.state = "once"
    /\ endpoint' = [endpoint EXCEPT !.twice = addPortToHost(endpoint.once),
                                    !.state = "twice"]
    /\ UNCHANGED <<osUser, authSock, call, session, ret, localFile, remoteFile, proc>>

NextNorm == Normalize \/ Renormalize

SpecNorm == InitNorm /\ [][NextNorm]_vars

\* ================================================================= claims
Range(seq) == {seq[i] : i \in 1..Len(seq)}
Occurrences(seq, x) == Cardinality({i \in 1..Len(seq) : seq[i] = x})
Last(seq) == seq[Len(seq)]
IsPrefix(p, q) == Len(p) <= Len(q) /\ SubSeq(q, 1, Len(p)) = p

\* a connect call has returned
ConnectReturned == call.variant # "none"

KeyVariants == {"ConnectWithKey", "ConnectWithKeyTimeout",
                "ConnectWithKeyFile", "ConnectWithKeyFileTimeout"}
AgentVariants == {"ConnectWithSshAgent", "ConnectWithSshAgentTimeout"}
PasswordVariants == {"ConnectWithPassword", "ConnectWithPasswordTimeout"}

\* C1: a connect call given an empty username returns an error and no Session,
\* without dialing the host or starting a handshake, when the current-user
\* lookup fails; when the lookup succeeds, the handshake runs under the
\* current user's name.
C1_EmptyUsername ==
    (ConnectReturned /\ call.username = "") =>
        /\ osUser = Nil =>
            /\ call.err # Nil
            /\ call.client = Nil
            /\ "net.DialTimeout" \notin Range(call.trace)
            /\ "ssh.NewClientConn" \notin Range(call.trace)
            /\ call.conn = "none"
        /\ (osUser # Nil /\ "ssh.NewClientConn" \in Range(call.trace)) =>
            call.user = osUser

\* the lookup was made for an empty username and failed
C1_Witness ==
    /\ ConnectReturned
    /\ call.username = ""
    /\ osUser = Nil
    /\ Last(call.trace) = "user.Current"

\* C2: in the key-based variants the parse of the key precedes username
\* resolution, dial and handshake, and malformed key material ends the call
\* with the parse error, no Session and no dial.
C2_ParseBeforeDial ==
    (ConnectReturned /\ call.variant \in KeyVariants) =>
        /\ \A i \in 1..Len(call.trace) :
            call.trace[i] \in {"user.Current", "net.DialTimeout", "ssh.NewClientConn"}
                => \E j \in 1..(i - 1) : call.trace[j] = "ssh.ParsePrivateKey"
        /\ ("ssh.ParsePrivateKey" \in Range(call.trace) /\ call.privKey # "pem") =>
            /\ call.err = "ssh: no key found"
            /\ call.client = Nil
            /\ Last(call.trace) = "ssh.ParsePrivateKey"
            /\ call.conn = "none"

\* a key file was read and held malformed key material
C2_Witness ==
    /\ call.variant = "ConnectWithKeyFile"
    /\ call.privKey = "garbage"
    /\ call.trace = <<"ioutil.ReadFile", "ssh.ParsePrivateKey">>

\* C3: with SSH_AUTH_SOCK empty or unset the agent-based variants return an
\* error and no Session at once: the refused agent dial is the only step of
\* the call, so nothing that could block (dial to the host, handshake) is begun.
C3_EmptyAuthSock ==
    (ConnectReturned /\ call.variant \in AgentVariants /\ authSock = "") =>
        /\ call.err # Nil
        /\ call.client = Nil
        /\ call.trace = <<"net.Dial(unix)">>
        /\ call.agent = "none"
        /\ call.conn = "none"

\* an agent-based variant was called with SSH_AUTH_SOCK empty
C3_Witness ==
    /\ call.variant = "ConnectWithSshAgent"
    /\ authSock = ""
    /\ call.err = "net.Dial"

\* the collaborator call an error comes from
StepOfErr(e) ==
    CASE e = "couldn't get current user" -> "user.Current"
      [] e = "ssh: no key found" -> "ssh.ParsePrivateKey"
      [] e = "net.Dial" -> "net.Dial(unix)"
      [] OTHER -> e

\* the credential a variant builds
CredentialOf(variant) ==
    IF variant \in PasswordVariants THEN "ssh.Password"
    ELSE IF variant \in KeyVariants THEN "ssh.PublicKeys"
    ELSE "ssh.PublicKeysCallback"

\* C7: a connect call attaches exactly one credential, dials at most once and
\* handshakes at most once; the first failing step ends it with that step's
\* error and no Session; a Session is returned only after the dial and then
\* the handshake have succeeded.
C7_OneAttempt ==
    ConnectReturned =>
        /\ Occurrences(call.trace, "net.DialTimeout") <= 1
        /\ Occurrences(call.trace, "ssh.NewClientConn") <= 1
        /\ \A s \in Range(call.trace) : Occurrences(call.trace, s) = 1
        /\ "net.DialTimeout" \in Range(call.trace) =>
                call.auth = <<CredentialOf(call.variant)>>
        /\ Len(call.auth) <= 1
        /\ (call.err = Nil) # (call.client = Nil)
        /\ call.err # Nil => Last(call.trace) = StepOfErr(call.err)
        /\ call.client # Nil =>
            /\ Len(call.trace) >= 2
            /\ SubSeq(call.trace, Len(call.trace) - 1, Len(call.trace))
                    = <<"net.DialTimeout", "ssh.NewClientConn">>
            /\ call.conn = "open" \/ session = "closed"

\* a call whose dial failed: it ended there
C7_Witness ==
    /\ ConnectReturned
    /\ call.err = "net.DialTimeout"
    /\ Last(call.trace) = "net.DialTimeout"
    /\ call.auth # <<>>

\* C10: after a connect call that returned an error, and after Close on the
\* Session a connect call returned, no socket the call opened (the transport
\* connection, the credential-agent socket) is still open.
C10_NoSocketLeft ==
    (ConnectReturned /\ (call.err # Nil \/ session = "closed")) =>
        /\ call.conn # "open"
        /\ call.agent # "open"

\* a Session operation has returned (or panicked)
Operated(op) == ret.op = op

ClosingOps == {"Exec", "ExecWithOutputStreams", "Download", "Upload", "ReadAll"}

\* C5: after Exec, ExecWithOutputStreams, Download, Upload or ReadAll has
\* returned, on any path, every sub-channel and file handle the call opened
\* (command session, sub-client, local file, remote file) is closed.
C5_AllHandlesClosed ==
    ret.op \in ClosingOps =>
        /\ ret.session # "open"
        /\ ret.sftp # "open"
        /\ ret.local # "open"
        /\ ret.remote # "open"

\* C6: the process is aborted exactly when ReadAll could not construct its
\* sub-client; every other failure inside a Session operation (the same
\* failure in Download, Upload and SFTPClient, the later ones in ReadAll)
\* comes back as the error value and leaves the process running.
C6_ErrorsNotPanics ==
    /\ proc = "aborted" <=> (Operated("ReadAll") /\ ret.fault = "sftp.NewClient")
    /\ (ret.op # "none" /\ ~(Operated("ReadAll") /\ ret.fault = "sftp.NewClient")) =>
        /\ ret.err = ret.fault
        /\ ~ret.panic

\* ReadAll could not construct its sub-client
C6_Witness ==
    /\ Operated("ReadAll")
    /\ ret.fault = "sftp.NewClient"
    /\ proc = "aborted"

\* the run error a fault makes session.Run return
RunErrOf(f) == IF f \in {"Start", "Wait"} THEN f ELSE Nil

C9_DownloadOrder ==
    Operated("Download") =>
        /\ IsPrefix(ret.trace, <<"sftp.NewClient", "Open", "Create", "io.Copy">>)
        /\ ret.err = ret.fault
        /\ ret.fault \in {"sftp.NewClient", "Open"} => localFile = ret.localBefore
        /\ ret.fault = "Create" => Last(ret.trace) = "Create"
        /\ ret.fault = "io.Copy" =>
            /\ localFile.exists
            /\ IsPrefix(localFile.data, ret.remoteBefore.data)
        /\ ret.fault = Nil => localFile = File(ret.remoteBefore.data)

\* a copy that failed midway: the local file holds the part written
C9_Witness ==
    /\ Operated("Download")
    /\ ret.err = "io.Copy"
    /\ localFile.data # <<>>
    /\ localFile.data # remoteFile.data

\* ----------------------------------------------------------------------
\* the host string has the form host:port (the port may be empty)
HasPort(host) == SplitHostPort(host).err = Nil

\* C4: addPortToHost gives the endpoint host:22 for a host without a port (a
\* bare IPv6 literal may come back in brackets, the notation of such an
\* endpoint) and the host itself for a host with a port, so normalising twice
\* equals normalising once; this for every host shape: bare and bracketed
\* IPv6 literals, an empty port after a final colon.
C4_Normalised ==
    /\ endpoint.state # "raw" =>
        /\ ~HasPort(endpoint.host) =>
            \/ endpoint.once = endpoint.host \o <<":">> \o Port22
            \/ /\ endpoint.host \in IPv6Literals
               /\ endpoint.once = <<"[">> \o endpoint.host \o <<"]", ":">> \o Port22
        /\ HasPort(endpoint.host) => endpoint.once = endpoint.host
    /\ endpoint.state = "twice" => endpoint.twice = endpoint.once

====
